---------------------------- MODULE Spec2Model ----------------------------
(* A model of scripts/nllb_translator.py: the NLLBTranslator object (its     *)
(* lazy load and its translate operation), the language-code table, and     *)
(* main() in its single-shot JSON mode and in its interactive mode.          *)
(* The model library (transformers / torch) is an opaque collaborator: each  *)
(* of its calls either succeeds or raises, chosen by the environment.        *)
EXTENDS Integers, Sequences, FiniteSets, TLC

VARIABLES
    args,        \* the parsed command line: model_path, device, interactive
    translator,  \* the NLLBTranslator object: model_path, device, model, tokenizer, loaded
    pc,          \* position of the driver: start / loop / done / crashed / api / lang
    stdout,      \* every write to standard output so far, in order
    ops,         \* number of operations (calls or turns) performed so far
    last         \* observation of the most recent operation

vars == <<args, translator, pc, stdout, ops, last>>

-----------------------------------------------------------------------------
(* Bounds and input alphabets                                               *)

MaxCalls == 3      \* direct calls of load_model / translate on one object
MaxTurns == 2      \* iterations of the interactive loop

None == 0          \* Python None for the model / tokenizer attributes

Devices == {"cpu", "cuda"}
ModelPath == "/models/nllb"

Errors == {"out of memory", "bad weights"}     \* str(e) of a library exception
Translations == {"Hola", ""}                   \* what decode may return
TextInputs == {"Hello"}
LangInputs == {"en", "ja", "xx"}               \* two supported codes, one unsupported

LoadSteps == {"tokenizer", "model", "to"}
TransSteps == {"tokenize", "to_device", "lang_code_to_id", "generate", "decode"}

(* One environment outcome for the library calls of a single operation.      *)
(* exists: os.path.exists(model_path); loadFail / transFail: the library     *)
(* step that raises ("none": all succeed); err: the text of the exception;   *)
(* translation: the decoded string.                                          *)
LibOutcomes ==
    [exists : BOOLEAN, loadFail : LoadSteps \cup {"none"},
     transFail : TransSteps \cup {"none"}, err : Errors,
     translation : Translations]

-----------------------------------------------------------------------------
(* NLLBTranslator                                                            *)

NLLBTranslator(model_path, device) ==
    [model_path |-> model_path, device |-> device,
     model |-> None, tokenizer |-> None, loaded |-> FALSE]

lang_codes ==
    [en |-> "eng_Latn", es |-> "spa_Latn", fr |-> "fra_Latn", de |-> "deu_Latn",
     it |-> "ita_Latn", pt |-> "por_Latn", ru |-> "rus_Cyrl", ja |-> "jpn_Jpan",
     ko |-> "kor_Hang", zh |-> "zho_Hans", ar |-> "arb_Arab", hi |-> "hin_Deva"]

(* dict.get(key, default) *)
Get(d, key, default) == IF key \in DOMAIN d THEN d[key] ELSE default

SrcCode(source_lang) == Get(lang_codes, source_lang, "eng_Latn")

(* Variant: the target default copied from the source default *)
TgtCodeDefaultEnglish(target_lang) == Get(lang_codes, target_lang, "eng_Latn")

TgtCode(target_lang) == Get(lang_codes, target_lang, "spa_Latn")

LoadingLine == [status |-> "loading", message |-> "Loading NLLB model..."]

Call(fn, obj) == [fn |-> fn, obj |-> obj]

LoadError(e) == [error |-> "Failed to load model: " \o e, status |-> "load_error"]

ModelNotFound(model_path) ==
    [error |-> "Model not found at " \o model_path, status |-> "model_not_found"]

(* Variant: the loaded flag is set before the artifacts are loaded *)
LoadArtifactsFlagFirst(self, id, lib) ==
    LET c1 == <<Call("AutoTokenizer.from_pretrained", None)>>
        c2 == Append(c1, Call("AutoModelForSeq2SeqLM.from_pretrained", None))
        c3 == IF self.device = "cpu" THEN Append(c2, Call("model.to", id)) ELSE c2
        s0 == [self EXCEPT !.loaded = TRUE]
        s1 == [s0 EXCEPT !.tokenizer = id]
        s2 == [s1 EXCEPT !.model = id]
        res(s, ret, calls) ==
            [self |-> s, ret |-> ret, out |-> <<LoadingLine>>, calls |-> calls]
    IN  IF lib.loadFail = "tokenizer" THEN res(s0, LoadError(lib.err), c1)
        ELSE IF lib.loadFail = "model" THEN res(s1, LoadError(lib.err), c2)
        ELSE IF lib.loadFail = "to" /\ self.device = "cpu"
        THEN res(s2, LoadError(lib.err), c3)
        ELSE res(s2, [status |-> "loaded",
                      message |-> "NLLB model loaded successfully"], c3)

(* Lines 57-77 of load_model, reached when the path exists: the progress     *)
(* line, the three library steps, the flag. A step that raises leaves the    *)
(* assignments made before it. id names the objects this call creates.       *)
LoadArtifacts(self, id, lib) ==
    LET c1 == <<Call("AutoTokenizer.from_pretrained", None)>>
        c2 == Append(c1, Call("AutoModelForSeq2SeqLM.from_pretrained", None))
        c3 == IF self.device = "cpu" THEN Append(c2, Call("model.to", id)) ELSE c2
        s1 == [self EXCEPT !.tokenizer = id]
        s2 == [s1 EXCEPT !.model = id]
        s3 == [s2 EXCEPT !.loaded = TRUE]
        res(s, ret, calls) ==
            [self |-> s, ret |-> ret, out |-> <<LoadingLine>>, calls |-> calls]
    IN  IF lib.loadFail = "tokenizer" THEN res(self, LoadError(lib.err), c1)
        ELSE IF lib.loadFail = "model" THEN res(s1, LoadError(lib.err), c2)
        ELSE IF lib.loadFail = "to" /\ self.device = "cpu"
        THEN res(s2, LoadError(lib.err), c3)
        ELSE res(s3, [status |-> "loaded",
                      message |-> "NLLB model loaded successfully"], c3)

(* Variant: the progress line is printed before the path is checked *)
load_model_announce_first(self, id, lib) ==
    IF ~lib.exists
    THEN [self |-> self, ret |-> ModelNotFound(self.model_path),
          out |-> <<LoadingLine>>, calls |-> <<>>]
    ELSE LoadArtifacts(self, id, lib)

(* Variant: every load starts by clearing the loaded flag *)
load_model_reset(self, id, lib) ==
    LET s0 == [self EXCEPT !.loaded = FALSE]
    IN  IF ~lib.exists
        THEN [self |-> s0, ret |-> ModelNotFound(self.model_path),
              out |-> <<>>, calls |-> <<>>]
        ELSE LoadArtifacts(s0, id, lib)

(* load_model: the object afterwards (self), the value returned (ret), the   *)
(* lines printed (out) and the library calls made (calls).                   *)
load_model(self, id, lib) ==
    IF ~lib.exists
    THEN [self |-> self, ret |-> ModelNotFound(self.model_path),
          out |-> <<>>, calls |-> <<>>]
    ELSE LoadArtifacts(self, id, lib)

(* Variant: the failure text is put under "message", not "error" *)
TranslationErrorAsMessage(e) ==
    [message |-> "Translation failed: " \o e, status |-> "translation_error"]

TranslationError(e) ==
    [error |-> "Translation failed: " \o e, status |-> "translation_error"]

(* The try block of translate (lines 86-132), run on an object s.            *)
TranslateBody(s, text, source_lang, target_lang, lib) ==
    LET src_code == SrcCode(source_lang)
        tgt_code == TgtCode(target_lang)
        k1 == <<Call("tokenizer", s.tokenizer)>>
        k2 == IF s.device # "cpu" THEN Append(k1, Call("inputs.to", None)) ELSE k1
        k3 == Append(k2, [fn |-> "lang_code_to_id", obj |-> s.tokenizer, key |-> tgt_code])
        k4 == Append(k3, Call("generate", s.model))
        k5 == Append(k4, Call("decode", s.tokenizer))
        res(ret, calls) == [ret |-> ret, calls |-> calls,
                            codes |-> <<[src_code |-> src_code, tgt_code |-> tgt_code]>>]
    IN  IF s.tokenizer = None
        THEN res(TranslationError("'NoneType' object is not callable"), k1)
        ELSE IF lib.transFail = "tokenize"
        THEN res(TranslationError(lib.err), k1)
        ELSE IF lib.transFail = "to_device" /\ s.device # "cpu"
        THEN res(TranslationError(lib.err), k2)
        ELSE IF lib.transFail = "lang_code_to_id"
        THEN res(TranslationError("'" \o tgt_code \o "'"), k3)
        ELSE IF s.model = None
        THEN res(TranslationError("'NoneType' object has no attribute 'generate'"), k4)
        ELSE IF lib.transFail = "generate"
        THEN res(TranslationError(lib.err), k4)
        ELSE IF lib.transFail = "decode"
        THEN res(TranslationError(lib.err), k5)
        ELSE res([status |-> "success", translation |-> lib.translation,
                  source_lang |-> source_lang, target_lang |-> target_lang,
                  model |-> "nllb-200"], k5)

(* Variant: the result of the implicit load is not examined *)
translate_unchecked_load(self, id, text, source_lang, target_lang, lib) ==
    LET body(s, out, calls, loads) ==
            LET ran(tb) == [self |-> s, ret |-> tb.ret, out |-> out,
                            calls |-> calls \o tb.calls, loads |-> loads,
                            codes |-> tb.codes]
            IN  ran(TranslateBody(s, text, source_lang, target_lang, lib))
        after(lr) == body(lr.self, lr.out, lr.calls, <<lr.ret>>)
    IN  IF ~self.loaded
        THEN after(load_model(self, id, lib))
        ELSE body(self, <<>>, <<>>, <<>>)

(* Variant: the load is performed on every call, loaded or not *)
translate_always_load(self, id, text, source_lang, target_lang, lib) ==
    LET body(s, out, calls, loads) ==
            LET ran(tb) == [self |-> s, ret |-> tb.ret, out |-> out,
                            calls |-> calls \o tb.calls, loads |-> loads,
                            codes |-> tb.codes]
            IN  ran(TranslateBody(s, text, source_lang, target_lang, lib))
        after(lr) ==
            IF "error" \in DOMAIN lr.ret
            THEN [self |-> lr.self, ret |-> lr.ret, out |-> lr.out,
                  calls |-> lr.calls, loads |-> <<lr.ret>>, codes |-> <<>>]
            ELSE body(lr.self, lr.out, lr.calls, <<lr.ret>>)
    IN  after(load_model(self, id, lib))

(* Variant: a failed translation drops the loaded flag *)
translate_unload_on_error(self, id, text, source_lang, target_lang, lib) ==
    LET body(s, out, calls, loads) ==
            LET ran(tb) == [self |-> IF "error" \in DOMAIN tb.ret
                                     THEN [s EXCEPT !.loaded = FALSE] ELSE s,
                            ret |-> tb.ret, out |-> out,
                            calls |-> calls \o tb.calls, loads |-> loads,
                            codes |-> tb.codes]
            IN  ran(TranslateBody(s, text, source_lang, target_lang, lib))
        after(lr) ==
            IF "error" \in DOMAIN lr.ret
            THEN [self |-> lr.self, ret |-> lr.ret, out |-> lr.out,
                  calls |-> lr.calls, loads |-> <<lr.ret>>, codes |-> <<>>]
            ELSE body(lr.self, lr.out, lr.calls, <<lr.ret>>)
    IN  IF ~self.loaded
        THEN after(load_model(self, id, lib))
        ELSE body(self, <<>>, <<>>, <<>>)

(* translate: as load_model, plus loads (what each load_model call it made   *)
(* returned) and codes (the language tags resolved, when the try block ran). *)
translate(self, id, text, source_lang, target_lang, lib) ==
    LET body(s, out, calls, loads) ==
            LET ran(tb) == [self |-> s, ret |-> tb.ret, out |-> out,
                            calls |-> calls \o tb.calls, loads |-> loads,
                            codes |-> tb.codes]
            IN  ran(TranslateBody(s, text, source_lang, target_lang, lib))
        after(lr) ==
            IF "error" \in DOMAIN lr.ret
            THEN [self |-> lr.self, ret |-> lr.ret, out |-> lr.out,
                  calls |-> lr.calls, loads |-> <<lr.ret>>, codes |-> <<>>]
            ELSE body(lr.self, lr.out, lr.calls, <<lr.ret>>)
    IN  IF ~self.loaded
        THEN after(load_model(self, id, lib))
        ELSE body(self, <<>>, <<>>, <<>>)

-----------------------------------------------------------------------------
(* Writes to standard output                                                 *)

PrintJson(doc) == [json |-> doc, indent |-> 0]          \* print(json.dumps(doc))
PrintPretty(doc) == [json |-> doc, indent |-> 2]        \* print(json.dumps(doc, indent=2))
PrintText(t) == [text |-> t]                            \* print(t)
Prompt(t) == [prompt |-> t]                             \* the prompt input(t) writes

RECURSIVE JsonLines(_)
JsonLines(docs) ==
    IF docs = <<>> THEN <<>> ELSE <<PrintJson(Head(docs))>> \o JsonLines(Tail(docs))

-----------------------------------------------------------------------------
(* Environment outcomes, without the components an operation never reads     *)

DefaultErr == "out of memory"
DefaultTranslation == "Hola"

Norm(self, op, lib) ==
    LET loads == op = "load_model" \/ ~self.loaded
        ex == IF loads THEN lib.exists ELSE TRUE
        lf == IF loads /\ ex /\ (lib.loadFail # "to" \/ self.device = "cpu")
              THEN lib.loadFail ELSE "none"
        body == op = "translate" /\ (self.loaded \/ (ex /\ lf = "none"))
        tf == IF body /\ (lib.transFail # "to_device" \/ self.device # "cpu")
              THEN lib.transFail ELSE "none"
    IN  [exists |-> ex, loadFail |-> lf, transFail |-> tf,
         err |-> IF lf # "none" \/ tf \notin {"none", "lang_code_to_id"}
                 THEN lib.err ELSE DefaultErr,
         translation |-> IF body /\ tf = "none" THEN lib.translation
                         ELSE DefaultTranslation]

LibFor(self, op) == {lib \in LibOutcomes : lib = Norm(self, op, lib)}

-----------------------------------------------------------------------------
(* Direct use of the class: a caller constructs one NLLBTranslator and       *)
(* calls load_model and translate on it in any order.                        *)

InitAPI ==
    /\ args \in [model_path : {ModelPath}, device : Devices, interactive : {FALSE}]
    /\ translator = NLLBTranslator(args.model_path, args.device)
    /\ pc = "api"
    /\ stdout = <<>>
    /\ ops = 0
    /\ last = [op |-> "none"]

CallLoadModel ==
    /\ pc = "api"
    /\ ops < MaxCalls
    /\ \E lib \in LibFor(translator, "load_model") :
         \E r \in {load_model(translator, ops + 1, lib)} :
             /\ translator' = r.self
             /\ stdout' = stdout \o JsonLines(r.out)
             /\ last' = [op |-> "load_model", before |-> translator, lib |-> lib,
                         ret |-> r.ret, out |-> r.out, calls |-> r.calls,
                         loads |-> <<r.ret>>]
    /\ ops' = ops + 1
    /\ UNCHANGED <<args, pc>>

TranslateCall(langs, bound) ==
    /\ ops < bound
    /\ \E lib \in LibFor(translator, "translate"), text \in TextInputs,
          source_lang \in langs, target_lang \in langs :
         \E r \in {translate(translator, ops + 1, text, source_lang, target_lang, lib)} :
             /\ translator' = r.self
             /\ stdout' = stdout \o JsonLines(r.out)
             /\ last' = [op |-> "translate", before |-> translator, lib |-> lib,
                         ret |-> r.ret, out |-> r.out, calls |-> r.calls,
                         loads |-> r.loads, codes |-> r.codes, text |-> text,
                         source_lang |-> source_lang, target_lang |-> target_lang]
    /\ ops' = ops + 1
    /\ UNCHANGED <<args, pc>>

CallTranslate ==
    /\ pc = "api"
    /\ TranslateCall(LangInputs, MaxCalls)

NextAPI == CallLoadModel \/ CallTranslate

SpecAPI == InitAPI /\ [][NextAPI]_vars

(* One translate call on a fresh object, over the whole language alphabet:   *)
(* the twelve codes of the table and codes that are not in it.               *)
AllCodes == DOMAIN lang_codes \cup {"xx", "EN", "eng_Latn", ""}

InitLang ==
    /\ args \in [model_path : {ModelPath}, device : Devices, interactive : {FALSE}]
    /\ translator = NLLBTranslator(args.model_path, args.device)
    /\ pc = "lang"
    /\ stdout = <<>>
    /\ ops = 0
    /\ last = [op |-> "none"]

TranslateAnyCode ==
    /\ pc = "lang"
    /\ TranslateCall(AllCodes, 1)

NextLang == TranslateAnyCode

SpecLang == InitLang /\ [][NextLang]_vars

-----------------------------------------------------------------------------
(* main(), non-interactive: one document on standard input                   *)

JsonKeys == {"action", "text", "source_lang", "target_lang"}
ActionInputs == {"load", "translate", "unload"}

FieldValues(k) ==
    CASE k = "action" -> ActionInputs
      [] k = "text" -> TextInputs
      [] OTHER -> LangInputs

JsonObjects ==
    UNION { {d \in [K -> ActionInputs \cup TextInputs \cup LangInputs] :
                \A k \in K : d[k] \in FieldValues(k)} : K \in SUBSET JsonKeys }

(* What standard input holds: bytes that do not decode, text that is not     *)
(* JSON, a JSON value that is not an object, or a JSON object.               *)
StdinInputs ==
    {[kind |-> "undecodable"], [kind |-> "malformed"], [kind |-> "list"]}
        \cup {[kind |-> "object", doc |-> d] : d \in JsonObjects}

UnexpectedError(e) == [error |-> "Unexpected error: " \o e, status |-> "error"]

(* Variant: every action other than "translate" is taken as a load *)
DispatchLoadByDefault(self, id, input_data, lib) ==
    LET action == Get(input_data, "action", "None")
        direct(result, raised) ==
            [self |-> self, result |-> result, raised |-> raised, out |-> <<>>,
             calls |-> <<>>, loads |-> <<>>, called |-> "none"]
        loaded(r) ==
            [self |-> r.self, result |-> <<r.ret>>, raised |-> <<>>, out |-> r.out,
             calls |-> r.calls, loads |-> <<r.ret>>, called |-> "load_model"]
        translated(r) ==
            [self |-> r.self, result |-> <<r.ret>>, raised |-> <<>>, out |-> r.out,
             calls |-> r.calls, loads |-> r.loads, called |-> "translate"]
    IN  IF action = "translate"
        THEN IF "text" \notin DOMAIN input_data
             THEN direct(<<>>, <<"'text'">>)
             ELSE translated(translate(self, id, input_data["text"],
                                 Get(input_data, "source_lang", "en"),
                                 Get(input_data, "target_lang", "es"), lib))
        ELSE loaded(load_model(self, id, lib))

(* Lines 169-178 of main: the request is dispatched on its action. The       *)
(* result is what the called operation returned, or the exception raised     *)
(* before any operation was called (raised).                                 *)
Dispatch(self, id, input_data, lib) ==
    LET action == Get(input_data, "action", "None")
        direct(result, raised) ==
            [self |-> self, result |-> result, raised |-> raised, out |-> <<>>,
             calls |-> <<>>, loads |-> <<>>, called |-> "none"]
        loaded(r) ==
            [self |-> r.self, result |-> <<r.ret>>, raised |-> <<>>, out |-> r.out,
             calls |-> r.calls, loads |-> <<r.ret>>, called |-> "load_model"]
        translated(r) ==
            [self |-> r.self, result |-> <<r.ret>>, raised |-> <<>>, out |-> r.out,
             calls |-> r.calls, loads |-> r.loads, called |-> "translate"]
    IN  IF action = "load"
        THEN loaded(load_model(self, id, lib))
        ELSE IF action = "translate"
        THEN IF "text" \notin DOMAIN input_data
             THEN direct(<<>>, <<"'text'">>)
             ELSE translated(translate(self, id, input_data["text"],
                                 Get(input_data, "source_lang", "en"),
                                 Get(input_data, "target_lang", "es"), lib))
        ELSE direct(<<[error |-> "Unknown action", status |-> "error"]>>, <<>>)

(* Variant: no catch-all handler; an exception raised while dispatching      *)
(* ends the process with a traceback and no response                         *)
main_json_no_catch_all(self, id, stdin, lib) ==
    LET quiet(doc) == [self |-> self, out |-> <<PrintJson(doc)>>, exit |-> "done",
                       calls |-> <<>>, loads |-> <<>>, called |-> "none"]
        crash == [self |-> self, out |-> <<>>, exit |-> "crashed",
                  calls |-> <<>>, loads |-> <<>>, called |-> "none"]
    IN  CASE stdin.kind = "undecodable" -> crash
          [] stdin.kind = "malformed" ->
               quiet([error |-> "Invalid JSON input", status |-> "json_error"])
          [] stdin.kind = "list" -> crash
          [] stdin.kind = "object" ->
               LET answered(d) ==
                       IF d.raised # <<>> THEN crash
                       ELSE [self |-> d.self,
                             out |-> JsonLines(d.out) \o <<PrintJson(d.result[1])>>,
                             exit |-> "done", calls |-> d.calls, loads |-> d.loads,
                             called |-> d.called]
               IN  answered(Dispatch(self, id, stdin.doc, lib))

(* The else branch of main (lines 163-191): the object afterwards, every     *)
(* write to standard output (out), the library calls and load_model calls    *)
(* made, and how the process ends (exit).                                    *)
main_json(self, id, stdin, lib) ==
    LET quiet(doc) == [self |-> self, out |-> <<PrintJson(doc)>>, exit |-> "done",
                       calls |-> <<>>, loads |-> <<>>, called |-> "none"]
    IN  CASE stdin.kind = "undecodable" ->
               quiet(UnexpectedError("'utf-8' codec can't decode byte 0xff in position 0: invalid start byte"))
          [] stdin.kind = "malformed" ->
               quiet([error |-> "Invalid JSON input", status |-> "json_error"])
          [] stdin.kind = "list" ->
               quiet(UnexpectedError("'list' object has no attribute 'get'"))
          [] stdin.kind = "object" ->
               LET answered(d) ==
                       [self |-> d.self,
                        out |-> JsonLines(d.out) \o
                                <<PrintJson(IF d.raised # <<>>
                                            THEN UnexpectedError(d.raised[1])
                                            ELSE d.result[1])>>,
                        exit |-> "done", calls |-> d.calls, loads |-> d.loads,
                        called |-> d.called]
               IN  answered(Dispatch(self, id, stdin.doc, lib))

(* The operation main_json reaches for a document, to choose library outcomes *)
Reaches(stdin) ==
    IF stdin.kind # "object" THEN "none"
    ELSE IF Get(stdin.doc, "action", "None") = "load" THEN "load_model"
    ELSE IF Get(stdin.doc, "action", "None") = "translate" /\ "text" \in DOMAIN stdin.doc
    THEN "translate" ELSE "none"

LibForMain(self, stdin) ==
    IF Reaches(stdin) = "none"
    THEN {lib \in LibOutcomes : lib = Norm([self EXCEPT !.loaded = TRUE], "none", lib)}
    ELSE LibFor(self, Reaches(stdin))

Init ==
    /\ args \in [model_path : {ModelPath}, device : Devices, interactive : BOOLEAN]
    /\ translator = NLLBTranslator(args.model_path, args.device)
    /\ pc = "start"
    /\ stdout = <<>>
    /\ ops = 0
    /\ last = [op |-> "none"]

NonInteractive ==
    /\ pc = "start"
    /\ ~args.interactive
    /\ \E stdin \in StdinInputs :
         \E lib \in LibForMain(translator, stdin) :
           \E r \in {main_json(translator, ops + 1, stdin, lib)} :
               /\ translator' = r.self
               /\ stdout' = stdout \o r.out
               /\ last' = [op |-> "main", before |-> translator, lib |-> lib,
                           stdin |-> stdin, out |-> r.out, calls |-> r.calls,
                           loads |-> r.loads, called |-> r.called]
               /\ pc' = r.exit
    /\ ops' = ops + 1
    /\ UNCHANGED args

-----------------------------------------------------------------------------
(* main(), interactive: a loop of prompts                                    *)

TextLines == {"Hello", "QUIT", " quit "}
LangLines == {"", "ja", " xx"}

(* str.strip() and str.lower() on the lines of the input alphabet *)
Strip(t) == CASE t = " quit " -> "quit" [] t = " xx" -> "xx" [] OTHER -> t
Lower(t) == CASE t = "QUIT" -> "quit" [] t = "Hello" -> "hello" [] OTHER -> t

(* x or default *)
Or(x, default) == IF x = "" THEN default ELSE x

Prompts == <<Prompt("Text: "), Prompt("Source language (en): "),
             Prompt("Target language (es): ")>>

InteractiveStart ==
    /\ pc = "start"
    /\ args.interactive
    /\ stdout' = stdout \o <<PrintText("NLLB Translator Interactive Mode"),
                             PrintText("Enter 'quit' to exit")>>
    /\ pc' = "loop"
    /\ UNCHANGED <<args, translator, ops, last>>

(* One full iteration: three lines read, translate called, result printed *)
InteractiveTurn ==
    /\ pc = "loop"
    /\ ops < MaxTurns
    /\ \E line \in TextLines, sline \in LangLines, tline \in LangLines :
         LET text == Strip(line)
             source == Or(Strip(sline), "en")
             target == Or(Strip(tline), "es")
         IN  /\ Lower(text) # "quit"
             /\ \E lib \in LibFor(translator, "translate") :
                  \E r \in {translate(translator, ops + 1, text, source, target, lib)} :
                      /\ translator' = r.self
                      /\ stdout' = stdout \o Prompts \o JsonLines(r.out)
                                          \o <<PrintPretty(r.ret)>>
                      /\ last' = [op |-> "turn", before |-> translator, lib |-> lib,
                                  ret |-> r.ret, out |-> r.out, calls |-> r.calls,
                                  loads |-> r.loads, nloads |-> Len(r.loads),
                                  codes |-> r.codes, text |-> text,
                                  source_lang |-> source, target_lang |-> target]
    /\ ops' = ops + 1
    /\ UNCHANGED <<args, pc>>

(* 'quit' at the text prompt ends the loop *)
InteractiveQuit ==
    /\ pc = "loop"
    /\ \E line \in TextLines :
         /\ Lower(Strip(line)) = "quit"
         /\ last' = [op |-> "quit", before |-> translator, line |-> line]
    /\ stdout' = stdout \o <<Prompts[1]>>
    /\ pc' = "done"
    /\ UNCHANGED <<args, translator, ops>>

(* KeyboardInterrupt while waiting at the k-th prompt of an iteration ends   *)
(* the loop; end of input there raises EOFError, which nothing catches.      *)
InteractiveInterrupt ==
    /\ pc = "loop"
    /\ \E k \in 1..3 :
         /\ stdout' = stdout \o SubSeq(Prompts, 1, k)
         /\ last' = [op |-> "interrupt", before |-> translator, at |-> k]
    /\ pc' = "done"
    /\ UNCHANGED <<args, translator, ops>>

(* KeyboardInterrupt while translate is inside a library call: translate's   *)
(* except Exception does not catch it, the loop's handler does. The object   *)
(* is left as the interrupted step found it and no result is printed.        *)
InteractiveInterruptInCall ==
    /\ pc = "loop"
    /\ ops < MaxTurns
    /\ \E line \in TextLines, sline \in LangLines, tline \in LangLines :
         LET text == Strip(line)
             source == Or(Strip(sline), "en")
             target == Or(Strip(tline), "es")
         IN  /\ Lower(text) # "quit"
             /\ \E lib \in LibFor(translator, "translate") :
                  \E r \in {translate(translator, ops + 1, text, source, target, lib)} :
                      /\ lib.loadFail # "none" \/ lib.transFail # "none"
                      /\ translator' = r.self
                      /\ stdout' = stdout \o Prompts \o JsonLines(r.out)
                      /\ last' = [op |-> "interrupted", before |-> translator,
                                  out |-> r.out, calls |-> r.calls,
                                  nloads |-> Len(r.loads)]
    /\ pc' = "done"
    /\ ops' = ops + 1
    /\ UNCHANGED args

InteractiveEOF ==
    /\ pc = "loop"
    /\ \E k \in 1..3 :
         /\ stdout' = stdout \o SubSeq(Prompts, 1, k)
         /\ last' = [op |-> "eof", before |-> translator, at |-> k]
    /\ pc' = "crashed"
    /\ UNCHANGED <<args, translator, ops>>

Next ==
    \/ NonInteractive
    \/ InteractiveStart
    \/ InteractiveTurn
    \/ InteractiveQuit
    \/ InteractiveInterrupt
    \/ InteractiveInterruptInCall
    \/ InteractiveEOF

Spec == Init /\ [][Next]_vars

-----------------------------------------------------------------------------
(* Properties                                                                *)

LoadingWrite ==
    [json |-> [status |-> "loading", message |-> "Loading NLLB model..."],
     indent |-> 0]

BodyCalls == {"tokenizer", "inputs.to", "lang_code_to_id", "generate", "decode"}

(* C1. Non-interactive mode: whatever standard input holds and whatever the  *)
(* library does, the process ends normally having written exactly one final  *)
(* JSON response; the only other write is at most one "loading" line, and    *)
(* it comes before the final response. Nothing is written before the         *)
(* request is handled and the process never ends with a traceback.           *)
C1_OneFinalResponse ==
    ~args.interactive =>
        /\ pc \in {"start", "done"}
        /\ pc = "start" => stdout = <<>>
        /\ pc = "done" =>
             LET n == Len(stdout)
             IN  /\ n \in {1, 2}
                 /\ \A i \in 1..n :
                      /\ DOMAIN stdout[i] = {"json", "indent"}
                      /\ "status" \in DOMAIN stdout[i].json
                 /\ stdout[n].json.status # "loading"
                 /\ n = 2 => stdout[1] = LoadingWrite

C1_Witness ==
    /\ ~args.interactive
    /\ pc = "done"
    /\ last.op = "main"
    /\ last.stdin.kind = "object"
    /\ "text" \notin DOMAIN last.stdin.doc
    /\ Get(last.stdin.doc, "action", "None") = "translate"

(* C2. translate on an object that is not loaded performs load_model first;  *)
(* when that load fails, translate returns the very mapping load_model       *)
(* returned (model_not_found or load_error with its text), makes no          *)
(* tokenizer / generate / decode call, and loaded is still false.            *)
C2_ImplicitLoadFailure ==
    (/\ last.op = "translate"
     /\ ~last.before.loaded
     /\ (~last.lib.exists \/ last.lib.loadFail # "none"))
    =>  /\ Len(last.loads) = 1
        /\ last.ret = last.loads[1]
        /\ last.ret =
             IF ~last.lib.exists
             THEN [error |-> "Model not found at /models/nllb",
                   status |-> "model_not_found"]
             ELSE [error |-> "Failed to load model: " \o last.lib.err,
                   status |-> "load_error"]
        /\ \A i \in DOMAIN last.calls : last.calls[i].fn \notin BodyCalls
        /\ ~translator.loaded

C2_Witness ==
    /\ last.op = "translate"
    /\ ~last.before.loaded
    /\ last.lib.loadFail = "model"
    /\ last.ret.status = "load_error"

(* C3. load_model with the model path absent returns model_not_found with a  *)
(* message, prints no "loading" line, calls nothing of the model library and *)
(* changes neither loaded nor model nor tokenizer; as long as no call has    *)
(* found the path (no "loading" line was ever printed) loaded is false and   *)
(* model and tokenizer are unset, however many calls were made.              *)
C3_ModelNotFound ==
    (last.op = "load_model" /\ ~last.lib.exists)
    =>  /\ last.ret = [error |-> "Model not found at /models/nllb",
                       status |-> "model_not_found"]
        /\ last.out = <<>>
        /\ last.calls = <<>>
        /\ translator = last.before
        /\ stdout = <<>> =>
             /\ ~translator.loaded
             /\ translator.model = None
             /\ translator.tokenizer = None

C3_Witness ==
    /\ last.op = "load_model"
    /\ ~last.lib.exists
    /\ ops = MaxCalls
    /\ stdout = <<>>

(* The final response of the most recent request of main *)
Response ==
    IF last.op = "main" THEN last.out[Len(last.out)].json ELSE last.ret

SuccessFields == {"translation", "source_lang", "target_lang", "model"}

HasError(r) == "error" \in DOMAIN r /\ r.error # ""

(* C4 as stated: every response returned by load_model or translate and      *)
(* printed by main has a status field and either the four success fields or  *)
(* an error field with a message.                                            *)
C4_Original ==
    last.op \in {"main", "turn"} =>
        /\ "status" \in DOMAIN Response
        /\ SuccessFields \subseteq DOMAIN Response \/ HasError(Response)

(* C4, amended: every response has a status field and either the four        *)
(* success fields, or an error field with a message, or - only for a         *)
(* load_model call that succeeded - status "loaded" with a message field.    *)
C4_ResponseShape ==
    last.op \in {"main", "turn"} =>
        /\ "status" \in DOMAIN Response
        /\ \/ SuccessFields \subseteq DOMAIN Response
           \/ HasError(Response)
           \/ /\ Response = [status |-> "loaded",
                             message |-> "NLLB model loaded successfully"]
              /\ last.op = "main"
              /\ last.called = "load_model"
              /\ translator.loaded

C4_Witness ==
    /\ last.op = "main"
    /\ last.called = "load_model"
    /\ Response.status = "loaded"

(* C5. loaded is one-way: no load_model or translate call, failing or not,   *)
(* makes it false once it is true, and it becomes true only in a step whose  *)
(* load_model call returned status "loaded".                                 *)
C5_LoadedOneWay ==
    [][ /\ translator.loaded => translator'.loaded
        /\ (~translator.loaded /\ translator'.loaded) =>
             /\ Len(last'.loads) = 1
             /\ last'.loads[1] = [status |-> "loaded",
                                  message |-> "NLLB model loaded successfully"] ]_vars

C5_Witness ==
    /\ last.op = "load_model"
    /\ last.before.loaded
    /\ last.ret.status = "load_error"
    /\ translator.loaded

(* The table as documented *)
DocumentedTags ==
    {<<"en", "eng_Latn">>, <<"es", "spa_Latn">>, <<"fr", "fra_Latn">>,
     <<"de", "deu_Latn">>, <<"it", "ita_Latn">>, <<"pt", "por_Latn">>,
     <<"ru", "rus_Cyrl">>, <<"ja", "jpn_Jpan">>, <<"ko", "kor_Hang">>,
     <<"zh", "zho_Hans">>, <<"ar", "arb_Arab">>, <<"hi", "hin_Deva">>}

SupportedCodes == {p[1] : p \in DocumentedTags}

(* C6. In translate each of the 12 supported codes resolves to its           *)
(* documented tag as source and as target; any other code resolves to        *)
(* eng_Latn as source and spa_Latn as target; the target tag is the key      *)
(* looked up for the forced first token; and a code outside the table is     *)
(* never a reason for an error: with the library succeeding the call         *)
(* succeeds and echoes the codes it was given.                               *)
C6_LanguageResolution ==
    last.op = "translate" =>
        /\ last.codes = <<>> => last.ret.status \in {"model_not_found", "load_error"}
        /\ last.codes # <<>> =>
             LET c == last.codes[1]
             IN  /\ \A p \in DocumentedTags :
                      /\ last.source_lang = p[1] => c.src_code = p[2]
                      /\ last.target_lang = p[1] => c.tgt_code = p[2]
                 /\ last.source_lang \notin SupportedCodes => c.src_code = "eng_Latn"
                 /\ last.target_lang \notin SupportedCodes => c.tgt_code = "spa_Latn"
                 /\ \A i \in DOMAIN last.calls :
                      last.calls[i].fn = "lang_code_to_id" =>
                          last.calls[i].key = c.tgt_code
                 /\ last.lib.transFail = "none" =>
                      /\ last.ret.status = "success"
                      /\ last.ret.source_lang = last.source_lang
                      /\ last.ret.target_lang = last.target_lang

C6_Witness ==
    /\ last.op = "translate"
    /\ last.source_lang = "xx"
    /\ last.target_lang = "EN"
    /\ last.ret.status = "success"
    /\ Cardinality(SupportedCodes) = 12

(* C7. Non-interactive mode: malformed JSON is answered with exactly         *)
(* {"error": "Invalid JSON input", "status": "json_error"}, and an object    *)
(* whose action is absent or is neither "load" nor "translate" with exactly  *)
(* {"error": "Unknown action", "status": "error"}; nothing else is written,  *)
(* no load is attempted, no library call is made and the translator is       *)
(* untouched, loaded false.                                                  *)
C7_Rejected ==
    LET malformed == last.stdin.kind = "malformed"
        unknown == /\ last.stdin.kind = "object"
                   /\ Get(last.stdin.doc, "action", "None") \notin {"load", "translate"}
    IN  (last.op = "main" /\ (malformed \/ unknown))
        =>  /\ stdout = << [json |-> IF malformed
                                     THEN [error |-> "Invalid JSON input",
                                           status |-> "json_error"]
                                     ELSE [error |-> "Unknown action",
                                           status |-> "error"],
                            indent |-> 0] >>
            /\ last.loads = <<>>
            /\ last.calls = <<>>
            /\ translator = last.before
            /\ ~translator.loaded
            /\ pc = "done"

C7_Witness ==
    /\ last.op = "main"
    /\ last.stdin.kind = "object"
    /\ "action" \notin DOMAIN last.stdin.doc
    /\ "text" \in DOMAIN last.stdin.doc

(* C8. translate on a loaded object never reloads, and when a step of its    *)
(* try block raises it returns translation_error with the text of the        *)
(* underlying error and leaves loaded, model and tokenizer as they were.     *)
C8_TranslationError ==
    (last.op = "translate" /\ last.before.loaded)
    =>  /\ last.loads = <<>>
        /\ last.out = <<>>
        /\ \A i \in DOMAIN last.calls : last.calls[i].fn \in BodyCalls
        /\ last.lib.transFail # "none" =>
             /\ last.ret =
                  [error |-> "Translation failed: " \o
                        (IF last.lib.transFail = "lang_code_to_id"
                         THEN "'" \o last.codes[1].tgt_code \o "'"
                         ELSE last.lib.err),
                   status |-> "translation_error"]
             /\ translator = last.before

C8_Witness ==
    /\ last.op = "translate"
    /\ last.before.loaded
    /\ last.lib.transFail = "generate"
    /\ last.ret.status = "translation_error"

(* C9. Interactive mode: a turn that takes a text to translate attempts a    *)
(* load exactly when loaded is false as the turn starts. With loaded true    *)
(* the turn makes no load and prints no "loading" line and keeps the same    *)
(* model and tokenizer; with loaded false (also after a turn whose load      *)
(* failed) it makes exactly one load attempt.                                *)
C9_LoadIffNotLoaded ==
    [][ (pc = "loop" /\ ops' = ops + 1) =>
          IF translator.loaded
          THEN /\ last'.nloads = 0
               /\ last'.out = <<>>
               /\ \A i \in DOMAIN last'.calls : last'.calls[i].fn \in BodyCalls
               /\ translator' = translator
          ELSE /\ last'.nloads = 1
               /\ last'.before = translator ]_vars

C9_Witness ==
    /\ last.op = "turn"
    /\ ops = 2
    /\ last.before.loaded
    /\ last.nloads = 0
    /\ last.ret.status = "success"

(* C10. loaded implies that model and tokenizer are both set; a load that    *)
(* fails after the tokenizer was assigned leaves loaded false; and no call   *)
(* of translate reaches the tokenizer, the language-token lookup, generate   *)
(* or decode on a missing object.                                            *)
C10_LoadedImpliesSet ==
    /\ translator.loaded =>
         (translator.model # None /\ translator.tokenizer # None)
    /\ (last.op = "load_model" /\ last.ret.status = "load_error") =>
         translator.loaded = last.before.loaded
    /\ last.op = "translate" =>
         \A i \in DOMAIN last.calls :
             last.calls[i].fn \in {"tokenizer", "lang_code_to_id", "generate", "decode"}
                 => last.calls[i].obj # None

C10_Witness ==
    /\ last.op = "translate"
    /\ last.before.tokenizer # None
    /\ last.before.model = None
    /\ ~last.before.loaded
    /\ last.ret.status = "success"

=============================================================================
